---- MODULE Spec2Model ----
(***************************************************************************)
(* Campaign execution engine of the WhatsApp outreach automation:          *)
(*   - DelayManager (src/core/delay_manager.py): rate limits, lazy day and *)
(*     hour bucket rollover, send bookkeeping;                             *)
(*   - CampaignManager (src/core/campaign_manager.py): the sequential send *)
(*     loop, the result log and the progress counters.                     *)
(* Wall-clock time is a pair (day, hour-of-day).  datetime.now() is read   *)
(* from the variable clock, which the environment advances hour by hour.   *)
(***************************************************************************)
EXTENDS Integers, Sequences, FiniteSets, TLC

\* ------------------------------------------------------------------ bounds
MaxCap == 2         \* largest max_messages_per_day / max_messages_per_hour
MaxTick == 2        \* the clock makes at most MaxTick hour steps
HoursPerDay == 2    \* hours of one day of the clock: 0..HoursPerDay-1
MaxSent == 3        \* record_message_sent calls explored by the API driver
MaxN == 3           \* longest recipient list
BatchMin == 1       \* messages_per_batch[0]
BatchMax == 2       \* messages_per_batch[1]
MinMessageDelay == 1    \* min_message_delay, seconds
MaxMessageDelay == 2    \* max_message_delay, seconds
MinBatchDelay == 3      \* min_batch_delay, seconds
MaxBatchDelay == 4      \* max_batch_delay, seconds
MaxRuns == 4        \* runs of one campaign on the same progress file

\* _send_messages saves the progress whenever processed % 5 == 0
SaveEvery == 5

\* Python's None for the integer-valued optional fields
None == -1

NoTime == [day |-> None, hour |-> None]

Days == 0..(MaxTick \div HoursPerDay)
Hours == 0..(HoursPerDay - 1)
HourKeys == Days \X Hours

VARIABLES
    config,         \* RateLimitConfig plus CampaignManager.dry_run
    stats,          \* DelayManager.stats (SendingStats)
    clock,          \* datetime.now(): [day, hour]
    ret,            \* return value of the latest can_send_message call
    lastOp,         \* the latest DelayManager call or clock event
    pre,            \* stats, hourSends and lastOp when the latest call was made
    hourSends,      \* record_message_sent calls since sent_this_hour was last reset
    recsToday,      \* record_message_sent calls made in the clock's calendar day
    recsThisHour,   \* record_message_sent calls made in the clock's calendar hour
    lastRecordAt,   \* calendar hour <<day, hour>> of the latest record_message_sent
    slept,          \* seconds the latest wait_between_messages call slept
    statsFile,      \* the file at DelayManager.stats_file
    total,          \* number of recipients excel_handler.get_businesses() returns
    runs,           \* CampaignManager objects constructed so far on the files
    loaded,         \* CampaignManager.progress as __init__ left it
    websites,       \* Business.website of each recipient of the Excel list
    disk,           \* "ok", or "faulty": writing a file can raise OSError
    progressFile,   \* the file at CampaignManager.progress_file
    lastOrig,       \* index in the Excel list of the recipient processed last
    waitedAfter,    \* loop indices after which wait_between_messages was called
    delivered,      \* Excel-list indices of the recipients a transport send
                    \* to whom succeeded, in this run and the runs it resumes
    businesses,     \* number of recipients handed to _send_messages
    pc,             \* position of run_campaign / _send_messages
    i,              \* loop index of _send_messages
    result,         \* dict returned by _send_single_message for recipient i
    progress,       \* CampaignManager.progress (CampaignProgress)
    attemptLog,     \* per _send_single_message call: what the transport did,
                    \* whether record_message_sent was called, and when
    blockedAt       \* loop index at which can_send_message returned blocked

\* the observers of the directly driven DelayManager
obsVars == <<lastOp, pre, hourSends, recsToday, recsThisHour, lastRecordAt,
             slept>>
dmVars == <<config, stats, clock, ret, lastOp, pre, hourSends, recsToday,
            recsThisHour, lastRecordAt, slept, statsFile>>
\* what stays as it is while one CampaignManager runs
runVars == <<total, runs, loaded, websites, disk>>
cmVars == <<businesses, pc, i, result, progress, attemptLog, blockedAt,
            total, runs, loaded, websites, disk, progressFile, lastOrig,
            waitedAfter, delivered>>
vars == <<config, stats, clock, ret, lastOp, pre, hourSends, recsToday,
          recsThisHour, lastRecordAt, slept, statsFile, businesses, pc, i, result,
          progress, attemptLog, blockedAt, total, runs, loaded, websites,
          disk, progressFile, lastOrig, waitedAfter, delivered>>

\* ------------------------------------------------------- RateLimitConfig
Configs ==
    [max_messages_per_day : 0..MaxCap,
     max_messages_per_hour : 0..MaxCap,
     messages_per_batch : {<<BatchMin, BatchMax>>},
     min_message_delay : {MinMessageDelay},
     max_message_delay : {MaxMessageDelay},
     min_batch_delay : {MinBatchDelay},
     max_batch_delay : {MaxBatchDelay},
     enable_delays : BOOLEAN,
     enable_daily_limit : BOOLEAN,
     enable_hourly_limit : BOOLEAN,
     dry_run : BOOLEAN,
     stats_file : BOOLEAN,       \* DelayManager.stats_file is set
     progress_file : BOOLEAN]    \* CampaignManager.progress_file is set

\* a disabled limit never reads its cap: one value stands for all
Canonical(cfg) ==
    /\ ~cfg.enable_daily_limit => cfg.max_messages_per_day = MaxCap
    /\ ~cfg.enable_hourly_limit => cfg.max_messages_per_hour = MaxCap

\* ---------------------------------------------------------- SendingStats
SendingStats ==
    [total_sent |-> 0,
     sent_today |-> 0,
     sent_this_hour |-> 0,
     last_message_time |-> NoTime,
     last_batch_delay_time |-> NoTime,
     messages_since_batch_delay |-> 0,
     next_batch_delay_at |-> 0,
     current_date |-> None,
     current_hour |-> None,
     hourly_counts |-> [k \in HourKeys |-> 0],
     daily_counts |-> [d \in Days |-> 0]]

DailyReason == "Daily limit reached"
HourlyReason == "Hourly limit reached"
NoReason == "None"

\* now.strftime("%Y-%m-%d"): the calendar day of now
Today(now) == now.day

\* now.strftime("%Y-%m-%d %H:00"): calendar day and hour of now
HourKey(now) == <<now.day, now.hour>>

\* the "Update date/hour tracking" block of can_send_message
\* the date bucket moved on without clearing the daily counter
RollDate_keepCount(s, now) ==
    IF s.current_date # Today(now)
    THEN [s EXCEPT !.current_date = Today(now)]
    ELSE s

RollDate(s, now) ==
    IF s.current_date # Today(now)
    THEN [s EXCEPT !.current_date = Today(now), !.sent_today = 0]
    ELSE s

RollHour(s, now) ==
    IF s.current_hour # now.hour
    THEN [s EXCEPT !.current_hour = now.hour, !.sent_this_hour = 0]
    ELSE s

Rolled(s, now) == RollHour(RollDate(s, now), now)

DailyBlocked(s, cfg) ==
    cfg.enable_daily_limit /\ s.sent_today >= cfg.max_messages_per_day

\* the hourly check firing one message early
HourlyBlocked_early(s, cfg) ==
    cfg.enable_hourly_limit /\ s.sent_this_hour + 1 >= cfg.max_messages_per_hour

\* the hourly check firing one message late
HourlyBlocked_late(s, cfg) ==
    cfg.enable_hourly_limit /\ s.sent_this_hour > cfg.max_messages_per_hour

HourlyBlocked(s, cfg) ==
    cfg.enable_hourly_limit /\ s.sent_this_hour >= cfg.max_messages_per_hour

\* the two limit checks in the opposite order
can_send_message_hourlyFirst(s, now, cfg) ==
    LET r == Rolled(s, now) IN
    [stats |-> r,
     ret |-> IF HourlyBlocked(r, cfg)
             THEN [can_send |-> FALSE, reason |-> HourlyReason]
             ELSE IF DailyBlocked(r, cfg)
             THEN [can_send |-> FALSE, reason |-> DailyReason]
             ELSE [can_send |-> TRUE, reason |-> NoReason]]

\* can_send_message: the stats after the lazy rollover and the returned tuple
can_send_message(s, now, cfg) ==
    LET r == Rolled(s, now) IN
    [stats |-> r,
     ret |-> IF DailyBlocked(r, cfg)
             THEN [can_send |-> FALSE, reason |-> DailyReason]
             ELSE IF HourlyBlocked(r, cfg)
             THEN [can_send |-> FALSE, reason |-> HourlyReason]
             ELSE [can_send |-> TRUE, reason |-> NoReason]]

\* a send counted twice in total_sent
record_message_sent_twice(s, now) ==
    [s EXCEPT
        !.total_sent = @ + 2,
        !.sent_today = @ + 1,
        !.sent_this_hour = @ + 1,
        !.messages_since_batch_delay = @ + 1,
        !.last_message_time = now,
        !.hourly_counts[HourKey(now)] = s.sent_this_hour + 1,
        !.daily_counts[Today(now)] = s.sent_today + 1]

record_message_sent(s, now) ==
    [s EXCEPT
        !.total_sent = @ + 1,
        !.sent_today = @ + 1,
        !.sent_this_hour = @ + 1,
        !.messages_since_batch_delay = @ + 1,
        !.last_message_time = now,
        !.hourly_counts[HourKey(now)] = s.sent_this_hour + 1,
        !.daily_counts[Today(now)] = s.sent_today + 1]

\* _reset_batch_threshold, thr being the value random.randint returns
BatchThresholds(cfg) == cfg.messages_per_batch[1]..cfg.messages_per_batch[2]

reset_batch_threshold(s, thr) == [s EXCEPT !.next_batch_delay_at = thr]

\* _do_batch_delay: the sleep itself changes no field
do_batch_delay(s, now, thr) ==
    reset_batch_threshold(
        [s EXCEPT !.last_batch_delay_time = now,
                  !.messages_since_batch_delay = 0], thr)

BatchDue(s) == s.messages_since_batch_delay >= s.next_batch_delay_at

\* a wait that runs the batch bookkeeping also when delays are disabled
wait_between_messages_always(s, now, cfg, thr, force) ==
    IF BatchDue(s)
    THEN do_batch_delay(s, now, thr)
    ELSE s

\* the stats wait_between_messages leaves behind
wait_between_messages(s, now, cfg, thr, force) ==
    IF ~cfg.enable_delays /\ ~force
    THEN s
    ELSE IF BatchDue(s)
         THEN do_batch_delay(s, now, thr)
         ELSE s

\* the values random.randint can return for the two kinds of delay
MessageDelays(cfg) == cfg.min_message_delay..cfg.max_message_delay
BatchDelays(cfg) == cfg.min_batch_delay..cfg.max_batch_delay

\* the argument wait_between_messages hands to _sleep_with_countdown, msg and
\* batch being the values random.randint returns; None: no sleep at all
wait_delay(s, cfg, force, msg, batch) ==
    IF ~cfg.enable_delays /\ ~force
    THEN None
    ELSE IF BatchDue(s) THEN batch ELSE msg

\* _sleep_with_countdown(seconds): whole seconds actually slept.  The loop
\* sleeps one second at a time while int(end_time - time.time()) > 0; the
\* truncation ends it one second early as soon as time.time() has moved
\* past the value read for start_time, and not when the clock reads the
\* same value again.
sleep_with_countdown(seconds) ==
    IF seconds = None THEN {None}
    ELSE IF seconds > 0 THEN {seconds - 1, seconds}
    ELSE {seconds}

NoRet == [can_send |-> TRUE, reason |-> NoReason]

\* ------------------------------------------------------- the stats file
\* A file is absent, or holds JSON text: form "ok" is what _save_stats
\* writes, "unparseable" is text json.load rejects, "bad_time" is a JSON
\* object whose last_message_time is not an ISO timestamp.
NoStatsFile == [exists |-> FALSE, form |-> "ok", data |-> SendingStats]

\* _save_stats: json.dump of the eleven fields
save_stats(s) ==
    [exists |-> TRUE,
     form |-> "ok",
     data |-> [total_sent |-> s.total_sent,
               sent_today |-> s.sent_today,
               sent_this_hour |-> s.sent_this_hour,
               last_message_time |-> s.last_message_time,
               last_batch_delay_time |-> s.last_batch_delay_time,
               messages_since_batch_delay |-> s.messages_since_batch_delay,
               next_batch_delay_at |-> s.next_batch_delay_at,
               current_date |-> s.current_date,
               current_hour |-> s.current_hour,
               hourly_counts |-> s.hourly_counts,
               daily_counts |-> s.daily_counts]]

\* _load_stats: assignments in source order; an exception ends them and is
\* swallowed, whatever was assigned before it stays
load_stats(s, f) ==
    IF ~f.exists \/ f.form = "unparseable"
    THEN s
    ELSE LET a == [s EXCEPT !.total_sent = f.data.total_sent,
                            !.sent_today = f.data.sent_today,
                            !.sent_this_hour = f.data.sent_this_hour]
         IN  IF f.form = "bad_time"
             THEN a
             ELSE [a EXCEPT
                     !.last_message_time =
                         IF f.data.last_message_time # NoTime
                         THEN f.data.last_message_time ELSE @,
                     !.last_batch_delay_time =
                         IF f.data.last_batch_delay_time # NoTime
                         THEN f.data.last_batch_delay_time ELSE @,
                     !.messages_since_batch_delay =
                         f.data.messages_since_batch_delay,
                     !.next_batch_delay_at = f.data.next_batch_delay_at,
                     !.current_date = f.data.current_date,
                     !.current_hour = f.data.current_hour,
                     !.hourly_counts = f.data.hourly_counts,
                     !.daily_counts = f.data.daily_counts]

\* DelayManager.__init__: fresh stats, the load, then _reset_batch_threshold
DelayManagerInit(cfg, f, thr) ==
    reset_batch_threshold(
        IF cfg.stats_file /\ f.exists
        THEN load_stats(SendingStats, f)
        ELSE SendingStats, thr)

\* ------------------------------------------------------ CampaignProgress
CampaignProgress ==
    [total_businesses |-> 0,
     processed |-> 0,
     sent |-> 0,
     failed |-> 0,
     skipped |-> 0,
     last_processed_index |-> -1,
     results |-> <<>>]

\* ------------------------------------------------------------- Business
\* Business.website: None, or the text of the Website cell
NoWebsite == "None"
Websites == {NoWebsite, "", " ", "https://example.com"}

\* str.strip() on the website texts of the model
strip(w) == IF w = " " THEN "" ELSE w

\* has_website without the strip: any non-empty text counts
has_website_noStrip(b) ==
    b.website # NoWebsite /\ b.website # ""

\* Business.has_website: bool(self.website and self.website.strip())
has_website(b) ==
    b.website # NoWebsite /\ b.website # "" /\ strip(b.website) # ""

\* MessageComposer.detect_message_type
detect_message_type(b) ==
    IF has_website(b) THEN "enhancement" ELSE "creation"

\* index in the Excel list of the recipient at loop index k of this run
Orig(k) == (total - businesses) + k

\* businesses[k] of the list handed to _send_messages
Business(k) == [website |-> websites[Orig(k) + 1]]

\* _record_result for the recipient at loop index idx: append a
\* MessageResult and bump the counter of its status
record_result(p, idx, status, error) ==
    LET q == [p EXCEPT !.results =
                  Append(@, [idx |-> idx,
                             message_type |-> detect_message_type(Business(idx)),
                             status |-> status,
                             error |-> error])]
    IN  IF status = "success" THEN [q EXCEPT !.sent = @ + 1]
        ELSE IF status = "failed" THEN [q EXCEPT !.failed = @ + 1]
        ELSE IF status = "skipped" THEN [q EXCEPT !.skipped = @ + 1]
        ELSE q

\* ----------------------------------------------------- the progress file
\* form "ok" is what _save_progress writes, "unparseable" is text json.load
\* rejects, "bad_start_time" is a JSON object whose start_time is not an ISO
\* timestamp.
ProgressData(p) ==
    [last_processed_index |-> p.last_processed_index,
     processed |-> p.processed,
     sent |-> p.sent,
     failed |-> p.failed,
     skipped |-> p.skipped]

NoProgressFile ==
    [exists |-> FALSE, form |-> "ok", data |-> ProgressData(CampaignProgress)]

\* _save_progress: json.dump of the five numbers and start_time
save_progress(p) == [exists |-> TRUE, form |-> "ok", data |-> ProgressData(p)]

\* _load_progress: the five numbers are assigned before start_time is
\* parsed; an exception is swallowed and leaves what was assigned
load_progress(p, f) ==
    IF ~f.exists \/ f.form = "unparseable"
    THEN p
    ELSE [p EXCEPT !.last_processed_index = f.data.last_processed_index,
                   !.processed = f.data.processed,
                   !.sent = f.data.sent,
                   !.failed = f.data.failed,
                   !.skipped = f.data.skipped]

\* CampaignManager.__init__: a fresh CampaignProgress, then the load
CampaignManagerInit(cfg, f) ==
    IF cfg.progress_file /\ f.exists
    THEN load_progress(CampaignProgress, f)
    ELSE CampaignProgress

\* a slice that starts at the last processed recipient itself
load_businesses_from(p, n) ==
    IF p.last_processed_index >= 0
    THEN IF n > p.last_processed_index
         THEN n - p.last_processed_index ELSE 0
    ELSE n

\* _load_businesses: length of businesses[last_processed_index + 1:]
load_businesses(p, n) ==
    IF p.last_processed_index >= 0
    THEN IF n > p.last_processed_index + 1
         THEN n - (p.last_processed_index + 1) ELSE 0
    ELSE n

\* WhatsAppController.send_message returns a tuple (success, error message)
SendOk == <<TRUE, "">>
SendFailed == <<FALSE, "Message sending not confirmed">>
SendReturns == {SendOk, SendFailed}

\* truth value Python gives a tuple in "if success:": non-empty is true
Truthy(t) == Len(t) > 0

SendFailedError == "Send operation failed"
ExceptionError == "exception"

\* ------------------------------------------------------------------ Init
InitDM ==
    /\ config \in Configs
    /\ Canonical(config)
    /\ \E thr \in BatchThresholds(config) :
          stats = reset_batch_threshold(SendingStats, thr)
    /\ clock = [day |-> 0, hour |-> 0]
    /\ ret = NoRet
    /\ lastOp = "init"
    /\ pre = [stats |-> stats, hourSends |-> 0, op |-> "init"]
    /\ hourSends = 0
    /\ recsToday = 0
    /\ recsThisHour = 0
    /\ lastRecordAt = <<None, None>>
    /\ slept = None
    /\ statsFile = NoStatsFile

InitCM ==
    /\ total \in 1..MaxN
    /\ businesses = total
    /\ runs = 1
    /\ loaded = CampaignProgress
    /\ websites \in [1..total -> Websites]
    /\ disk \in {"ok", "faulty"}
    /\ progressFile = NoProgressFile
    /\ lastOrig = None
    /\ waitedAfter = {}
    /\ delivered = {}
    /\ pc = "idle"
    /\ i = 0
    /\ result = [status |-> "none", error |-> NoReason]
    /\ progress = CampaignProgress
    /\ attemptLog = <<>>
    /\ blockedAt = None

\* managers constructed without stats_file and progress_file
NoFiles == ~config.stats_file /\ ~config.progress_file

\* an Excel list without Website cells
NoWebsites == \A k \in 1..total : websites[k] = NoWebsite

\* every write to the data directory succeeds
SoundDisk == disk = "ok"

Init == InitDM /\ InitCM /\ NoFiles /\ NoWebsites /\ SoundDisk

\* a DelayManager used on its own, as the unit tests do
InitAPI ==
    /\ InitDM
    /\ InitCM
    /\ SoundDisk
    /\ NoFiles
    /\ NoWebsites
    /\ businesses = 1
    /\ ~config.dry_run
    /\ config.enable_delays
    /\ stats.next_batch_delay_at = BatchMin

\* open(file, 'w') has emptied the file and json.dump has not completed
Truncated(f) == [f EXCEPT !.exists = TRUE, !.form = "unparseable"]

\* a save that raises OSError, swallowed by the save: open() failed and the
\* file is as it was, or the write failed and the file is cut short
FailedWrite(f) == {f, Truncated(f)}

\* what a save can leave in file f when it writes the content new
Written(f, new) ==
    IF disk = "faulty" THEN {new} \cup FailedWrite(f) ELSE {new}

\* the stats file after "if self.stats_file: self._save_stats()"
SavedStats(s) ==
    IF config.stats_file THEN Written(statsFile, save_stats(s))
    ELSE {statsFile}

\* the progress file after a _save_progress call made when cond holds
SavedProgress(cond, p) ==
    IF config.progress_file /\ cond
    THEN Written(progressFile, save_progress(p))
    ELSE {progressFile}

\* ------------------------------------------------- the clock (environment)
LastHour == clock.day * HoursPerDay + clock.hour >= MaxTick

NextHour ==
    IF clock.hour = HoursPerDay - 1
    THEN [day |-> clock.day + 1, hour |-> 0]
    ELSE [day |-> clock.day, hour |-> clock.hour + 1]

TickClock ==
    /\ ~LastHour
    /\ clock' = NextHour
    /\ recsToday' = IF NextHour.day # clock.day THEN 0 ELSE recsToday
    /\ recsThisHour' = 0
    /\ lastOp' = "tick"

\* -------------------------------------------- DelayManager driven directly
Tick ==
    /\ TickClock
    /\ UNCHANGED <<config, stats, ret, pre, hourSends, lastRecordAt, slept,
                   statsFile>>
    /\ UNCHANGED cmVars

\* a call of can_send_message, with the bookkeeping of the observers
CallCanSend ==
    /\ pre' = [stats |-> stats, hourSends |-> hourSends, op |-> lastOp]
    /\ stats' = can_send_message(stats, clock, config).stats
    /\ ret' = can_send_message(stats, clock, config).ret
    /\ hourSends' = IF stats.current_hour # clock.hour THEN 0 ELSE hourSends
    /\ lastOp' = "can_send"

\* a call of record_message_sent, with the bookkeeping of the observers
CallRecord ==
    /\ stats' = record_message_sent(stats, clock)
    /\ statsFile' \in SavedStats(stats')
    /\ hourSends' = hourSends + 1
    /\ recsToday' = recsToday + 1
    /\ recsThisHour' = recsThisHour + 1
    /\ lastRecordAt' = HourKey(clock)
    /\ lastOp' = "record"

CanSendMessage ==
    /\ CallCanSend
    /\ UNCHANGED <<config, clock, recsToday, recsThisHour, lastRecordAt, slept,
                   statsFile>>
    /\ UNCHANGED cmVars

RecordMessageSent ==
    /\ stats.total_sent < MaxSent
    /\ CallRecord
    /\ UNCHANGED <<config, clock, ret, pre, slept>>
    /\ UNCHANGED cmVars

\* a call of wait_between_messages(force)
WaitBetweenMessages(force) ==
    /\ pre' = [stats |-> stats, hourSends |-> hourSends, op |-> lastOp]
    /\ \E thr \in BatchThresholds(config) :
          stats' = wait_between_messages(stats, clock, config, thr, force)
    /\ \E msg \in MessageDelays(config), batch \in BatchDelays(config) :
          slept' \in sleep_with_countdown(
                        wait_delay(stats, config, force, msg, batch))
    /\ lastOp' = IF force THEN "wait_forced" ELSE "wait"
    /\ UNCHANGED <<config, clock, ret, hourSends, recsToday, recsThisHour,
                   lastRecordAt, statsFile>>
    /\ UNCHANGED cmVars

NextDM == Tick \/ CanSendMessage \/ RecordMessageSent

SpecDM == InitAPI /\ [][NextDM]_vars

\* ------------------------------------ DelayManager on a stats file
\* a new DelayManager is constructed on the stats file of the earlier one
Reconstruct ==
    /\ \E thr \in BatchThresholds(config) :
          stats' = DelayManagerInit(config, statsFile, thr)
    /\ ret' = NoRet
    /\ lastOp' = "construct"
    /\ UNCHANGED <<config, clock, pre, hourSends, recsToday, recsThisHour,
                   lastRecordAt, slept, statsFile>>
    /\ UNCHANGED cmVars

\* a DelayManager with a stats file, both limits on, the daily cap at MaxCap
InitPersist ==
    /\ InitDM
    /\ InitCM
    /\ SoundDisk
    /\ NoWebsites
    /\ config.stats_file
    /\ ~config.progress_file
    /\ businesses = 1
    /\ ~config.dry_run
    /\ config.enable_delays
    /\ config.enable_daily_limit
    /\ config.enable_hourly_limit
    /\ config.max_messages_per_day = MaxCap

NextPersist == Tick \/ CanSendMessage \/ RecordMessageSent \/ Reconstruct

SpecPersist == InitPersist /\ [][NextPersist]_vars

\* ------------------------------- DelayManager: sends and the waits between
\* a DelayManager with both limits switched off, delays on or off
InitWait ==
    /\ InitDM
    /\ InitCM
    /\ SoundDisk
    /\ NoFiles
    /\ NoWebsites
    /\ businesses = 1
    /\ ~config.dry_run
    /\ ~config.enable_daily_limit
    /\ ~config.enable_hourly_limit

NextWait ==
    \/ Tick
    \/ RecordMessageSent
    \/ \E force \in BOOLEAN : WaitBetweenMessages(force)

SpecWait == InitWait /\ [][NextWait]_vars

\* ------------------------------------------------------ CampaignManager
\* run_campaign up to the first loop iteration of _send_messages
RunCampaign ==
    /\ pc = "idle"
    /\ businesses' = load_businesses(progress, total)
    /\ progress' = [progress EXCEPT !.total_businesses = businesses']
    /\ pc' = IF businesses' = 0 THEN "aborted" ELSE "check"
    /\ i' = 0
    /\ UNCHANGED <<result, attemptLog, blockedAt, progressFile, lastOrig,
                   waitedAfter, delivered>>
    /\ UNCHANGED runVars
    /\ UNCHANGED dmVars

\* loop top: can_send_message allows the send
CheckAllowed ==
    /\ pc = "check"
    /\ stats' = can_send_message(stats, clock, config).stats
    /\ ret' = can_send_message(stats, clock, config).ret
    /\ ret'.can_send
    /\ pc' = "send"
    /\ UNCHANGED <<config, clock, statsFile>>
    /\ UNCHANGED obsVars
    /\ UNCHANGED <<businesses, i, result, progress, attemptLog, blockedAt,
                   progressFile, lastOrig, waitedAfter, delivered>>
    /\ UNCHANGED runVars

\* the blocked branch without its break: the loop goes on
CheckBlocked_noBreak ==
    /\ pc = "check"
    /\ stats' = can_send_message(stats, clock, config).stats
    /\ ret' = can_send_message(stats, clock, config).ret
    /\ ~ret'.can_send
    /\ progress' = record_result(progress, i, "skipped", ret'.reason)
    /\ blockedAt' = i
    /\ IF i + 1 < businesses
       THEN pc' = "check" /\ i' = i + 1
       ELSE pc' = "done" /\ i' = i
    /\ progressFile' \in SavedProgress(pc' = "done", progress')
    /\ UNCHANGED <<config, clock, statsFile>>
    /\ UNCHANGED obsVars
    /\ UNCHANGED <<businesses, result, attemptLog, lastOrig, waitedAfter,
                   delivered>>
    /\ UNCHANGED runVars

\* loop top: can_send_message blocks; record 'skipped', break, leave the loop
CheckBlocked ==
    /\ pc = "check"
    /\ stats' = can_send_message(stats, clock, config).stats
    /\ ret' = can_send_message(stats, clock, config).ret
    /\ ~ret'.can_send
    /\ progress' = record_result(progress, i, "skipped", ret'.reason)
    /\ blockedAt' = i
    /\ pc' = "done"
    /\ progressFile' \in SavedProgress(TRUE, progress')
    /\ UNCHANGED <<config, clock, statsFile>>
    /\ UNCHANGED obsVars
    /\ UNCHANGED <<businesses, i, result, attemptLog, lastOrig, waitedAfter,
                   delivered>>
    /\ UNCHANGED runVars

\* _send_single_message in dry-run mode
SendDryRun ==
    /\ pc = "send"
    /\ config.dry_run
    /\ result' = [status |-> "success", error |-> NoReason]
    /\ attemptLog' = Append(attemptLog,
                        [idx |-> i, transport |-> "none", recorded |-> FALSE,
                         at |-> HourKey(clock)])
    /\ pc' = "record"
    /\ UNCHANGED <<businesses, i, progress, blockedAt, progressFile, lastOrig,
                   waitedAfter, delivered>>
    /\ UNCHANGED runVars
    /\ UNCHANGED dmVars

\* _send_single_message, live: send_message returns the tuple success
SendLive(success) ==
    /\ pc = "send"
    /\ ~config.dry_run
    /\ IF Truthy(success)
       THEN /\ stats' = record_message_sent(stats, clock)
            /\ statsFile' \in SavedStats(stats')
            /\ result' = [status |-> "success", error |-> NoReason]
            /\ UNCHANGED <<config, clock, ret>>
            /\ UNCHANGED obsVars
       ELSE /\ result' = [status |-> "failed", error |-> SendFailedError]
            /\ UNCHANGED dmVars
    /\ attemptLog' = Append(attemptLog,
                        [idx |-> i,
                         transport |-> IF success[1] THEN "ok" ELSE "fail",
                         recorded |-> Truthy(success),
                         at |-> HourKey(clock)])
    /\ delivered' = IF success[1] THEN delivered \cup {Orig(i)} ELSE delivered
    /\ pc' = "record"
    /\ UNCHANGED <<businesses, i, progress, blockedAt, progressFile, lastOrig,
                   waitedAfter>>
    /\ UNCHANGED runVars

\* _send_single_message, live: composing or sending raises an Exception
SendRaises ==
    /\ pc = "send"
    /\ ~config.dry_run
    /\ result' = [status |-> "failed", error |-> ExceptionError]
    /\ attemptLog' = Append(attemptLog,
                        [idx |-> i, transport |-> "raise", recorded |-> FALSE,
                         at |-> HourKey(clock)])
    /\ pc' = "record"
    /\ UNCHANGED <<businesses, i, progress, blockedAt, progressFile, lastOrig,
                   waitedAfter, delivered>>
    /\ UNCHANGED runVars
    /\ UNCHANGED dmVars

\* the for statement moving on from index i: next recipient or loop end
Advance ==
    IF i + 1 < businesses
    THEN pc' = "check" /\ i' = i + 1
    ELSE pc' = "done" /\ i' = i

\* a failed attempt ending the loop
RecordResult_stopOnFailure ==
    /\ pc = "record"
    /\ progress' = [record_result(progress, i, result.status, result.error)
                        EXCEPT !.processed = @ + 1,
                               !.last_processed_index = i]
    /\ lastOrig' = (total - businesses) + i
    /\ IF result.status = "failed"
       THEN pc' = "done" /\ i' = i
       ELSE IF i < businesses - 1
            THEN pc' = "wait" /\ i' = i
            ELSE Advance
    /\ progressFile' \in SavedProgress(progress'.processed % SaveEvery = 0
                                        \/ pc' = "done", progress')
    /\ UNCHANGED <<businesses, result, attemptLog, blockedAt, waitedAfter,
                   delivered>>
    /\ UNCHANGED runVars
    /\ UNCHANGED dmVars

\* a failing _save_progress that lets its exception out: the handler of the
\* loop records 'failed' for the recipient
RecordResult_saveRaises ==
    /\ pc = "record"
    /\ LET q == [record_result(progress, i, result.status, result.error)
                    EXCEPT !.processed = @ + 1,
                           !.last_processed_index = i]
           due == q.processed % SaveEvery = 0 \/ i = businesses - 1
       IN  /\ progressFile' \in SavedProgress(due, q)
           /\ IF config.progress_file /\ due /\ progressFile' # save_progress(q)
              THEN /\ progress' = record_result(q, i, "failed", ExceptionError)
                   /\ Advance
              ELSE /\ progress' = q
                   /\ IF i < businesses - 1 /\ result.status = "success"
                      THEN pc' = "wait" /\ i' = i
                      ELSE Advance
    /\ lastOrig' = (total - businesses) + i
    /\ UNCHANGED <<businesses, result, attemptLog, blockedAt, waitedAfter,
                   delivered>>
    /\ UNCHANGED runVars
    /\ UNCHANGED dmVars

\* _record_result, the progress update, the periodic save, the decision
\* to wait and, after the last recipient, the save that follows the loop
RecordResult ==
    /\ pc = "record"
    /\ progress' = [record_result(progress, i, result.status, result.error)
                        EXCEPT !.processed = @ + 1,
                               !.last_processed_index = i]
    /\ lastOrig' = (total - businesses) + i
    /\ IF i < businesses - 1 /\ result.status = "success"
       THEN pc' = "wait" /\ i' = i
       ELSE Advance
    /\ progressFile' \in SavedProgress(progress'.processed % SaveEvery = 0
                                        \/ pc' = "done", progress')
    /\ UNCHANGED <<businesses, result, attemptLog, blockedAt, waitedAfter,
                   delivered>>
    /\ UNCHANGED runVars
    /\ UNCHANGED dmVars

\* wait_between_messages, then the next loop iteration
Wait ==
    /\ pc = "wait"
    /\ \E thr \in BatchThresholds(config) :
          stats' = wait_between_messages(stats, clock, config, thr, FALSE)
    /\ waitedAfter' = waitedAfter \cup {i}
    /\ Advance
    /\ UNCHANGED delivered
    /\ UNCHANGED <<config, clock, ret, statsFile>>
    /\ UNCHANGED obsVars
    /\ UNCHANGED <<businesses, result, progress, attemptLog, blockedAt,
                   progressFile, lastOrig>>
    /\ UNCHANGED runVars

\* an interruption that ends the run without saving the progress
Interrupt_noSave ==
    /\ pc \in {"check", "send", "record", "wait"}
    /\ pc' = "interrupted"
    /\ UNCHANGED <<businesses, i, result, progress, attemptLog, blockedAt,
                   progressFile, lastOrig, waitedAfter, delivered>>
    /\ UNCHANGED runVars
    /\ UNCHANGED dmVars

\* KeyboardInterrupt inside the loop: re-raised by _send_messages;
\* run_campaign saves the progress and returns False
Interrupt ==
    /\ pc \in {"check", "send", "record", "wait"}
    /\ pc' = "interrupted"
    /\ progressFile' \in SavedProgress(TRUE, progress)
    /\ UNCHANGED <<businesses, i, result, progress, attemptLog, blockedAt,
                   lastOrig, waitedAfter, delivered>>
    /\ UNCHANGED runVars
    /\ UNCHANGED dmVars

\* the clock moving on while a campaign runs
CampaignTick ==
    /\ pc \in {"check", "send", "record", "wait"}
    /\ ~LastHour
    /\ clock' = NextHour
    /\ UNCHANGED <<config, stats, ret, statsFile>>
    /\ UNCHANGED obsVars
    /\ UNCHANGED cmVars

Next ==
    \/ RunCampaign
    \/ CheckAllowed
    \/ CheckBlocked
    \/ SendDryRun
    \/ \E success \in SendReturns : SendLive(success)
    \/ SendRaises
    \/ RecordResult
    \/ Wait
    \/ Interrupt
    \/ CampaignTick

Spec == Init /\ [][Next]_vars

\* -------------------------------- campaigns resumed from a progress file
Terminated == pc \in {"done", "interrupted", "aborted", "failed"}

\* what run_campaign returned
Returned ==
    IF pc = "done" THEN "True"
    ELSE IF Terminated THEN "False"
    ELSE "running"

\* an Exception that leaves _send_messages: raised in the loop body and again
\* by _record_result in the handler of the loop; run_campaign logs it and
\* returns False
UnexpectedError ==
    /\ pc \in {"check", "send", "record", "wait"}
    /\ pc' = "failed"
    /\ UNCHANGED <<businesses, i, result, progress, attemptLog, blockedAt,
                   progressFile, lastOrig, waitedAfter, delivered>>
    /\ UNCHANGED runVars
    /\ UNCHANGED dmVars

\* the progress file is damaged between two runs
DamageProgressFile(form) ==
    /\ Terminated
    /\ progressFile.exists
    /\ progressFile.form = "ok"
    /\ progressFile' = [progressFile EXCEPT !.form = form]
    /\ UNCHANGED <<businesses, pc, i, result, progress, attemptLog, blockedAt,
                   lastOrig, waitedAfter, delivered>>
    /\ UNCHANGED runVars
    /\ UNCHANGED dmVars

\* the program is started again on the same Excel list and files: a new
\* DelayManager and a new CampaignManager are constructed
Started ==
    /\ runs < MaxRuns
    /\ runs' = runs + 1
    /\ \E thr \in BatchThresholds(config) :
          stats' = DelayManagerInit(config, statsFile, thr)
    /\ ret' = NoRet
    /\ progress' = CampaignManagerInit(config, progressFile)
    /\ loaded' = progress'
    /\ businesses' = total
    /\ pc' = "idle"
    /\ i' = 0
    /\ result' = [status |-> "none", error |-> NoReason]
    /\ attemptLog' = <<>>
    /\ blockedAt' = None
    /\ waitedAfter' = {}
    /\ UNCHANGED <<config, clock, statsFile, total, websites, disk,
                   progressFile, lastOrig>>
    /\ UNCHANGED obsVars

\* a start after a run that has ended in whatever way; the sends of the
\* earlier runs are not followed further
Restart ==
    /\ Terminated
    /\ Started
    /\ delivered' = {}

\* a start after an interrupted run
ResumeInterrupted ==
    /\ pc = "interrupted"
    /\ Started
    /\ UNCHANGED delivered

\* runs on a progress file, all within one clock hour; of the rate limits
\* only the daily one is switched on, delays are off
InitResume ==
    /\ InitDM
    /\ InitCM
    /\ SoundDisk
    /\ NoWebsites
    /\ config.progress_file
    /\ ~config.stats_file
    /\ ~config.enable_hourly_limit
    /\ ~config.enable_delays

NextResume ==
    \/ RunCampaign
    \/ CheckAllowed
    \/ CheckBlocked
    \/ SendDryRun
    \/ \E success \in SendReturns : SendLive(success)
    \/ SendRaises
    \/ RecordResult
    \/ Wait
    \/ Interrupt
    \/ UnexpectedError
    \/ \E form \in {"unparseable", "bad_start_time"} : DamageProgressFile(form)
    \/ Restart

SpecResume == InitResume /\ [][NextResume]_vars

\* live runs on a progress file, interrupted and resumed; rate limits and
\* delays are off
InitResend ==
    /\ InitDM
    /\ InitCM
    /\ NoWebsites
    /\ SoundDisk
    /\ config.progress_file
    /\ ~config.stats_file
    /\ ~config.dry_run
    /\ ~config.enable_daily_limit
    /\ ~config.enable_hourly_limit
    /\ ~config.enable_delays

NextResend ==
    \/ RunCampaign
    \/ CheckAllowed
    \/ \E success \in SendReturns : SendLive(success)
    \/ SendRaises
    \/ RecordResult
    \/ Wait
    \/ Interrupt
    \/ ResumeInterrupted

SpecResend == InitResend /\ [][NextResend]_vars

\* ------------------------------------- saves that fail, saves cut short
\* the RecordResult step at loop index i ends with a _save_progress call
SaveDue ==
    (progress.processed + 1) % SaveEvery = 0 \/ i = businesses - 1

\* the process is killed inside the _save_progress call of the step that
\* records the result: open(..., 'w') has run, json.dump has not completed
CrashInSaveProgress ==
    /\ pc = "record"
    /\ config.progress_file
    /\ SaveDue
    /\ pc' = "crashed"
    /\ progressFile' = Truncated(progressFile)
    /\ UNCHANGED <<businesses, i, result, progress, attemptLog, blockedAt,
                   lastOrig, waitedAfter, delivered>>
    /\ UNCHANGED runVars
    /\ UNCHANGED dmVars

\* the process is killed inside the _save_stats call of record_message_sent,
\* after a send the transport reported: open(..., 'w') has run, json.dump
\* has not completed
CrashInSaveStats ==
    /\ pc = "send"
    /\ ~config.dry_run
    /\ config.stats_file
    /\ pc' = "crashed"
    /\ statsFile' = Truncated(statsFile)
    /\ UNCHANGED <<config, stats, clock, ret>>
    /\ UNCHANGED obsVars
    /\ UNCHANGED <<businesses, i, result, progress, attemptLog, blockedAt,
                   progressFile, lastOrig, waitedAfter, delivered>>
    /\ UNCHANGED runVars

\* live runs on a progress file and a stats file, the disk faulty; of the
\* rate limits only the daily one is switched on, delays are off
InitSave ==
    /\ InitDM
    /\ InitCM
    /\ NoWebsites
    /\ disk = "faulty"
    /\ config.progress_file
    /\ config.stats_file
    /\ ~config.dry_run
    /\ ~config.enable_hourly_limit
    /\ ~config.enable_delays

NextSave ==
    \/ RunCampaign
    \/ CheckAllowed
    \/ CheckBlocked
    \/ \E success \in SendReturns : SendLive(success)
    \/ SendRaises
    \/ RecordResult
    \/ Wait
    \/ Interrupt
    \/ CrashInSaveProgress
    \/ CrashInSaveStats

SpecSave == InitSave /\ [][NextSave]_vars

\* ------------------------------------------------------------- dry runs
\* dry runs over Excel lists with and without websites, no files
InitDry ==
    /\ InitDM
    /\ InitCM
    /\ SoundDisk
    /\ NoFiles
    /\ config.dry_run

NextDry ==
    \/ RunCampaign
    \/ CheckAllowed
    \/ CheckBlocked
    \/ SendDryRun
    \/ RecordResult
    \/ Wait

SpecDry == InitDry /\ [][NextDry]_vars

\* --------------------------- campaigns in which the inter-message wait fails
\* wait_between_messages raises an Exception (random.randint rejects a delay
\* range whose minimum exceeds its maximum): the handler of the loop records
\* a 'failed' result for the recipient and the loop goes on
WaitRaises ==
    /\ pc = "wait"
    /\ config.enable_delays
    /\ progress' = record_result(progress, i, "failed", ExceptionError)
    /\ waitedAfter' = waitedAfter \cup {i}
    /\ Advance
    /\ UNCHANGED <<businesses, result, attemptLog, blockedAt, progressFile,
                   lastOrig, delivered>>
    /\ UNCHANGED runVars
    /\ UNCHANGED dmVars

\* fresh runs without files, delays enabled, within one clock hour
InitErr ==
    /\ Init
    /\ config.enable_delays

NextErr ==
    \/ RunCampaign
    \/ CheckAllowed
    \/ CheckBlocked
    \/ SendDryRun
    \/ \E success \in SendReturns : SendLive(success)
    \/ SendRaises
    \/ RecordResult
    \/ Wait
    \/ WaitRaises

SpecErr == InitErr /\ [][NextErr]_vars

\* ------------------------------------------------------ success rates
\* A rate is kept in hundredths of a percent, rounded down: the counters of
\* the model are small enough for different quotients to stay different.
\* CampaignMetrics of the AnalyticsTracker: _record_result calls track_* with
\* every counter it bumps, start_campaign zeroes them at the start of the run
CampaignMetrics ==
    [messages_sent |-> progress.sent - loaded.sent,
     messages_failed |-> progress.failed - loaded.failed,
     messages_skipped |-> progress.skipped - loaded.skipped]

\* AnalyticsTracker.end_campaign: success_rate, 0.0 unless total_attempted > 0
end_campaign(m) ==
    LET total_attempted == m.messages_sent + m.messages_failed IN
    IF total_attempted > 0
    THEN (m.messages_sent * 10000) \div total_attempted
    ELSE 0

\* _generate_report: the rate of the "Success Rate" line; None: no such line
generate_report(p) ==
    IF p.processed > 0
    THEN (p.sent * 10000) \div p.processed
    ELSE None

\* =================================================================== claims
Blocked(reason) == [can_send |-> FALSE, reason |-> reason]
Allowed == [can_send |-> TRUE, reason |-> NoReason]

\* C1: with the daily limit enabled, once exactly max_messages_per_day calls
\* of record_message_sent were made in the current calendar day, a call of
\* can_send_message returns (False, daily-limit reason).
C1_DailyLimitAfterNRecords ==
    (lastOp = "can_send" /\ config.enable_daily_limit
        /\ recsToday = config.max_messages_per_day)
    => ret = Blocked(DailyReason)

\* C2: after N < max_messages_per_hour calls of record_message_sent in the
\* same hour bucket, can_send_message returns (True, None).
C2_AllowedBelowHourlyCap ==
    (lastOp = "can_send" /\ pre.hourSends < config.max_messages_per_hour)
    => ret = Allowed

\* C2 as amended: after N < max_messages_per_hour calls of
\* record_message_sent in the same hour bucket, can_send_message returns
\* (True, None) unless the daily limit is enabled and sent_today, after the
\* day rollover, has reached max_messages_per_day; it never returns the
\* hourly-limit reason.
C2_AllowedBelowBothCaps ==
    (lastOp = "can_send" /\ pre.hourSends < config.max_messages_per_hour)
    => /\ ret.reason # HourlyReason
       /\ ~DailyBlocked(stats, config) => ret = Allowed
       /\ DailyBlocked(stats, config) => ret = Blocked(DailyReason)

C2_Witness ==
    /\ lastOp = "can_send"
    /\ pre.hourSends >= 1
    /\ pre.hourSends < config.max_messages_per_hour
    /\ config.enable_hourly_limit
    /\ pre.stats.current_hour = clock.hour
    /\ ret = Allowed

\* C3: a call of can_send_message made when the stored date bucket is an
\* earlier day than today resets sent_today to 0, sets the date bucket to
\* today and returns allowed, also when sent_today was at the daily cap.
C3_DayRolloverAllows ==
    (lastOp = "can_send" /\ pre.stats.current_date # None
        /\ pre.stats.current_date < clock.day)
    => /\ stats.sent_today = 0
       /\ stats.current_date = clock.day
       /\ ret = Allowed

\* C3 as amended: such a call resets sent_today to 0, sets the date bucket to
\* today and no longer reports the daily limit when max_messages_per_day > 0,
\* also when sent_today was at the daily cap; it returns allowed unless the
\* hourly limit is enabled and sent_this_hour, after the hour rollover of the
\* same call, is at or above max_messages_per_hour.
C3_DayRolloverLiftsDailyBlock ==
    (lastOp = "can_send" /\ pre.stats.current_date # None
        /\ pre.stats.current_date < clock.day)
    => /\ stats.sent_today = 0
       /\ stats.current_date = clock.day
       /\ config.max_messages_per_day > 0 => ret.reason # DailyReason
       /\ (config.max_messages_per_day > 0 \/ ~config.enable_daily_limit)
            => (ret = Allowed <=> ~HourlyBlocked(stats, config))

C3_Witness ==
    /\ lastOp = "can_send"
    /\ pre.stats.current_date # None
    /\ pre.stats.current_date < clock.day
    /\ config.enable_daily_limit
    /\ config.max_messages_per_day > 0
    /\ pre.stats.sent_today >= config.max_messages_per_day
    /\ ret = Allowed

\* C4: a call of can_send_message made in a calendar hour other than the one
\* in which sent_this_hour was accumulated resets sent_this_hour to 0 and
\* sets the hour bucket to the current hour before the hourly check, so it
\* does not report the hourly limit.
C4_HourRolloverResets ==
    (lastOp = "can_send" /\ lastRecordAt # <<None, None>>
        /\ lastRecordAt # HourKey(clock))
    => /\ stats.sent_this_hour = 0
       /\ stats.current_hour = clock.hour
       /\ ret.reason # HourlyReason

\* ------------------------------------------------------- campaign claims
Results == progress.results

\* the attempts whose result has been appended are results 1..Len(attemptLog)
HasResult(k) == k \in DOMAIN attemptLog /\ k <= Len(Results)

NumRecorded == Cardinality({k \in DOMAIN attemptLog : attemptLog[k].recorded})

\* C5: in the campaign loop sent_today never exceeds max_messages_per_day
\* (daily limit enabled) and sent_this_hour never exceeds
\* max_messages_per_hour (hourly limit enabled).
C5_CountersWithinCaps ==
    /\ config.enable_daily_limit
        => stats.sent_today <= config.max_messages_per_day
    /\ config.enable_hourly_limit
        => stats.sent_this_hour <= config.max_messages_per_hour

C5_Witness ==
    /\ pc = "done"
    /\ blockedAt # None
    /\ config.enable_hourly_limit
    /\ config.enable_daily_limit
    /\ config.max_messages_per_hour = 2
    /\ stats.sent_this_hour = config.max_messages_per_hour
    /\ stats.sent_today = config.max_messages_per_day

\* C6: an attempt whose transport send returned a failure result or raised
\* gets a 'failed' result carrying the failure detail and makes no
\* record_message_sent call.
C6_FailureRecordedAsFailed ==
    \A k \in DOMAIN attemptLog :
        attemptLog[k].transport \in {"fail", "raise"}
        => /\ ~attemptLog[k].recorded
           /\ HasResult(k) => /\ Results[k].status = "failed"
                              /\ Results[k].error # NoReason

\* C7: in every run, live or dry-run, each 'success' result is matched by one
\* record_message_sent call, and total_sent counts exactly those calls.
C7_SuccessMatchedByRecord ==
    /\ \A k \in DOMAIN attemptLog :
          (HasResult(k) /\ Results[k].status = "success")
          => attemptLog[k].recorded
    /\ stats.total_sent = NumRecorded

\* C7 as amended: in every live run each 'success' result is matched by
\* exactly one record_message_sent call of its own attempt and no other
\* attempt makes one, so total_sent has grown by the number of 'success'
\* results plus at most the one send whose result is not appended yet; in a
\* dry run no record_message_sent call is made and total_sent stays as it was.
C7_LiveSuccessMatchedByRecord ==
    /\ ~config.dry_run =>
          /\ \A k \in DOMAIN attemptLog :
                HasResult(k)
                => (Results[k].status = "success" <=> attemptLog[k].recorded)
          /\ stats.total_sent = NumRecorded
          /\ progress.sent <= stats.total_sent
          /\ stats.total_sent <= progress.sent + 1
          /\ Len(attemptLog) = Len(Results) /\ blockedAt = None
                => stats.total_sent = progress.sent
    /\ config.dry_run => NumRecorded = 0 /\ stats.total_sent = 0

C7_Witness ==
    /\ ~config.dry_run
    /\ pc = "done"
    /\ progress.sent = 2
    /\ progress.failed = 1
    /\ stats.total_sent = 2

\* C8: a block at loop index blockedAt of n recipients records every
\* recipient blockedAt..n-1 as 'skipped' with the blocking reason, so skipped
\* grows by n - blockedAt.
C8_RemainingSkipped ==
    blockedAt # None
    => /\ progress.skipped = businesses - blockedAt
       /\ Len(Results) = businesses
       /\ \A k \in (blockedAt + 1)..businesses :
             Results[k].status = "skipped" /\ Results[k].error = ret.reason

\* C9: once can_send_message has returned blocked at a loop index, the loop
\* is over: no send is attempted for that recipient or a later one, and
\* processed and last_processed_index stay at the last attempted recipient.
C9_BlockStopsLoop ==
    blockedAt # None
    => /\ pc = "done"
       /\ \A k \in DOMAIN attemptLog : attemptLog[k].idx < blockedAt
       /\ progress.processed = Len(attemptLog)
       /\ progress.last_processed_index = blockedAt - 1

C9_Witness ==
    /\ blockedAt # None
    /\ blockedAt >= 1
    /\ blockedAt + 1 < businesses
    /\ Len(attemptLog) = blockedAt
    /\ ~config.dry_run

\* C10: a failed send does not end the loop: attempts are made in list order
\* and the loop ends only when the list is exhausted or a rate limit blocks.
C10_FailureDoesNotEndLoop ==
    /\ \A k \in DOMAIN attemptLog : attemptLog[k].idx = k - 1
    /\ (pc = "done" /\ blockedAt = None) => Len(attemptLog) = businesses

C10_Witness ==
    /\ pc = "done"
    /\ blockedAt = None
    /\ businesses = 3
    /\ Len(attemptLog) = 3
    /\ attemptLog[1].transport = "raise"
    /\ Results[1].status = "failed"
    /\ attemptLog[3].transport = "ok"

\* ------------------------------------------------------------ wait claims
\* C15: wait_between_messages is called after an attempt exactly when the
\* send of that attempt succeeded and the recipient is not the last of the
\* list; a failed attempt and the last recipient are not followed by a wait.
C15_WaitIffSucceededNotLast ==
    \A k \in DOMAIN attemptLog :
        (attemptLog[k].idx < i \/ pc = "done")
        => (attemptLog[k].idx \in waitedAfter
              <=> /\ attemptLog[k].transport \in {"ok", "none"}
                  /\ attemptLog[k].idx < businesses - 1)

\* C16: with delays enabled, wait_between_messages waits a duration within
\* [min_message_delay, max_message_delay], unless messages_since_batch_delay
\* >= next_batch_delay_at held at the call: then it waits a duration within
\* [min_batch_delay, max_batch_delay], resets messages_since_batch_delay to 0
\* and redraws next_batch_delay_at within messages_per_batch.
C16_WaitWithinRange ==
    (lastOp = "wait" /\ config.enable_delays)
    => IF BatchDue(pre.stats)
       THEN /\ slept \in BatchDelays(config)
            /\ stats.messages_since_batch_delay = 0
            /\ stats.next_batch_delay_at \in BatchThresholds(config)
       ELSE /\ slept \in MessageDelays(config)
            /\ stats = pre.stats

\* C17: with enable_delays false and force not set, wait_between_messages
\* does not sleep, also when the batch threshold is reached, and leaves every
\* SendingStats field as it was.
C17_DisabledDelaysNoWait ==
    (lastOp = "wait" /\ ~config.enable_delays)
    => /\ slept = None
       /\ stats = pre.stats

C17_Witness ==
    /\ lastOp = "wait"
    /\ ~config.enable_delays
    /\ pre.stats.messages_since_batch_delay >= 1
    /\ BatchDue(pre.stats)
    /\ slept = None
    /\ stats.messages_since_batch_delay = pre.stats.messages_since_batch_delay

\* ---------------------------------------------------------- resume claims
\* C11: a run resumed from the progress a fresh run persisted with
\* last_processed_index = k is handed the recipients k+1.. of the Excel list,
\* attempts them in list order and none at an index <= k, and when it
\* exhausts the list processed, summed over both runs, is the length of the
\* Excel list.
C11_ResumeAfterK ==
    (runs <= 2 /\ pc # "idle")
    => /\ businesses = total - (loaded.last_processed_index + 1)
       /\ \A k \in DOMAIN attemptLog :
             /\ attemptLog[k].idx = k - 1
             /\ Orig(attemptLog[k].idx) > loaded.last_processed_index
             /\ Orig(attemptLog[k].idx) < total
       /\ (pc = "done" /\ blockedAt = None) => progress.processed = total

C11_Witness ==
    /\ runs = 2
    /\ pc = "done"
    /\ blockedAt = None
    /\ loaded.last_processed_index = 0
    /\ loaded.processed = 1
    /\ total = 3
    /\ Len(attemptLog) = 2
    /\ progress.processed = 3

\* C12: over any number of interrupted and resumed runs the persisted
\* last_processed_index is the Excel-list index of the recipient processed
\* last, so a resumed run continues right after it.
C12_PersistedIndexIsOriginal ==
    (pc \in {"done", "interrupted"} /\ progressFile.exists)
    => progressFile.data.last_processed_index = lastOrig

\* C13: with a progress file, the progress is saved whenever processed
\* reaches a multiple of 5 and when the loop is left by any route (list
\* exhausted, rate-limit block, interruption, unexpected error), so after
\* the loop the persisted last_processed_index, processed, sent, failed and
\* skipped equal the in-memory ones.
C13_PersistedEqualsMemory ==
    /\ (pc \in {"check", "wait"} /\ progress.processed > loaded.processed
          /\ progress.processed % SaveEvery = 0 /\ Len(attemptLog) = Len(Results))
        => /\ progressFile.exists
           /\ progressFile.data = ProgressData(progress)
    /\ pc \in {"done", "interrupted", "failed"}
        => /\ progressFile.exists
           /\ progressFile.data = ProgressData(progress)

C20_FailedLoadIsNoState ==
    (pc = "idle" /\ runs > 1
        /\ (~progressFile.exists \/ progressFile.form # "ok"))
    => progress = CampaignProgress

\* ------------------------------------------------------ stats file claims
\* C18: a DelayManager constructed on a stats file an earlier manager wrote
\* holds, before any can_send_message call, the saved value of total_sent,
\* sent_today, sent_this_hour, messages_since_batch_delay,
\* next_batch_delay_at, current_date, current_hour and both history maps.
C18_LoadedEqualsSaved ==
    (lastOp = "construct" /\ statsFile.exists)
    => /\ stats.total_sent = statsFile.data.total_sent
       /\ stats.sent_today = statsFile.data.sent_today
       /\ stats.sent_this_hour = statsFile.data.sent_this_hour
       /\ stats.messages_since_batch_delay
            = statsFile.data.messages_since_batch_delay
       /\ stats.next_batch_delay_at = statsFile.data.next_batch_delay_at
       /\ stats.current_date = statsFile.data.current_date
       /\ stats.current_hour = statsFile.data.current_hour
       /\ stats.hourly_counts = statsFile.data.hourly_counts
       /\ stats.daily_counts = statsFile.data.daily_counts

\* C19: the load performs no rollover, whatever the clock: counters and
\* bucket labels are restored as saved; counters saved in an earlier day or
\* hour are reset by the first can_send_message call after the load.
C19_RolloverAtFirstCanSend ==
    /\ (lastOp = "construct" /\ statsFile.exists)
        => /\ stats.sent_today = statsFile.data.sent_today
           /\ stats.sent_this_hour = statsFile.data.sent_this_hour
           /\ stats.current_date = statsFile.data.current_date
           /\ stats.current_hour = statsFile.data.current_hour
    /\ (lastOp = "can_send" /\ pre.op = "construct" /\ statsFile.exists)
        => /\ lastRecordAt[1] < clock.day => stats.sent_today = 0
           /\ lastRecordAt # HourKey(clock) => stats.sent_this_hour = 0

C30_CountersOrdered ==
    /\ [](/\ stats.sent_this_hour <= stats.sent_today
          /\ stats.sent_today <= stats.total_sent)
    /\ [][stats'.total_sent >= stats.total_sent]_vars

\* ---------------------------------------------------- campaign claims, II
\* record_message_sent calls of this run made in calendar hour hk / on day d
SendsIn(hk) ==
    Cardinality({k \in DOMAIN attemptLog :
                    attemptLog[k].recorded /\ attemptLog[k].at = hk})

SendsOn(d) ==
    Cardinality({k \in DOMAIN attemptLog :
                    attemptLog[k].recorded /\ attemptLog[k].at[1] = d})

\* C27: in a live run the sends recorded within one calendar hour never
\* exceed max_messages_per_hour and those within one calendar day never
\* exceed max_messages_per_day (limits enabled), wherever the hour or day
\* boundary falls, also between the can_send_message check and the
\* record_message_sent of one attempt.
C27_SendsWithinCaps ==
    /\ config.enable_hourly_limit
        => \A hk \in HourKeys : SendsIn(hk) <= config.max_messages_per_hour
    /\ config.enable_daily_limit
        => \A d \in Days : SendsOn(d) <= config.max_messages_per_day

\* C26: the results list holds exactly one entry per recipient the loop
\* reached, in list order; no recipient has two entries, also when an
\* Exception is raised after its outcome was recorded.
C26_OneResultPerRecipient ==
    /\ \A a, b \in DOMAIN Results : a < b => Results[a].idx < Results[b].idx
    /\ pc \in {"check", "send", "record"} => Len(Results) = i
    /\ pc \in {"wait", "done"} => Len(Results) = i + 1

\* C29: in a fresh run, after every loop iteration processed = sent + failed
\* and the length of the results list = sent + failed + skipped.
C29_FreshCountersAddUp ==
    (pc \in {"check", "done"} /\ loaded = CampaignProgress)
    => /\ progress.processed = progress.sent + progress.failed
       /\ Len(Results) = progress.sent + progress.failed + progress.skipped

\* sent / (sent + failed) as a percentage, 0 when sent + failed = 0
SuccessRate(sent, failed) ==
    IF sent + failed = 0 THEN 0 ELSE (sent * 10000) \div (sent + failed)

\* C24: every success rate a completed campaign reports is
\* sent / (sent + failed) as a percentage, 0 when sent + failed = 0, whatever
\* the number of skipped attempts: the rate of the AnalyticsTracker and the
\* rate of the "Success Rate" line of the campaign report.
C24_SuccessRateFormula ==
    pc = "done"
    => /\ end_campaign(CampaignMetrics)
            = SuccessRate(CampaignMetrics.messages_sent,
                          CampaignMetrics.messages_failed)
       /\ generate_report(progress) # None
            => generate_report(progress)
                 = SuccessRate(progress.sent, progress.failed)

\* the Website cell of the recipient at Excel index k holds a web address
HasSite(k) == websites[k + 1] \notin {NoWebsite, "", " "}

C21_CrashLeavesValidFile ==
    [][(pc # "crashed" /\ pc' = "crashed")
        => /\ progressFile' = progressFile \/ progressFile'.form = "ok"
           /\ statsFile' = statsFile \/ statsFile'.form = "ok"]_vars

\* the step that records a result with a failing _save_progress
ProgressSaveFailed ==
    /\ pc = "record"
    /\ pc' \in {"wait", "check", "done"}
    /\ config.progress_file
    /\ SaveDue
    /\ progressFile' # save_progress(progress')

\* the step of a reported send with a failing _save_stats
StatsSaveFailed ==
    /\ pc = "send"
    /\ pc' = "record"
    /\ config.stats_file
    /\ stats' # stats
    /\ statsFile' # save_stats(stats')

C28_NoSecondSend ==
    [][(pc = "send" /\ pc' = "record"
          /\ attemptLog'[Len(attemptLog')].transport = "ok")
        => Orig(i) \notin delivered]_vars

====
